---- MODULE Spec2Model ----
(***************************************************************************)
(* The adaptive polling-interval controller of the gift-card deal bot      *)
(* (src/adaptive_scraper.py, class AdaptiveScraper) together with the      *)
(* turnover statistics it consumes (src/database_monitor.py).              *)
(*                                                                         *)
(* Numbers that the Python code computes with true division (turnover      *)
(* rates, average lifetimes and their across-source averages) are exact    *)
(* rationals <<numerator, denominator>> with a positive denominator.       *)
(* Intervals ("frequencies", in minutes) stay integers, as in the code.    *)
(***************************************************************************)
EXTENDS Integers, Sequences, FiniteSets, TLC

VARIABLES
    current_frequency,      \* self.current_frequency (minutes between scrapes)
    min_frequency,          \* self.min_frequency
    max_frequency,          \* self.max_frequency
    adjustment_threshold,   \* self.adjustment_threshold
    scrape_count,           \* self.scrape_count
    scrape_history,         \* self.scrape_history (frequency_minutes of each scrape)
    last_adjustment_time,   \* self.last_adjustment_time: <<>> is None, <<t>> a time
    adjustment_history,     \* self.adjustment_history (the loaded JSON object)
    adjustment_log_file,    \* the file frequency_adjustments.json
    now,                    \* datetime.now(): a logical clock, which advances
                            \* once for every evaluation of the adjustment rules;
                            \* adjust_frequency is called while now < MaxTime
    call,                   \* the most recent call: its arguments, locals and result
    skipped_return,         \* what the most recent skipped adjust_frequency returned
    running,                \* self.running
    caller,                 \* where the main thread is: "idle", or inside
                            \* stop_adaptive_scraping waiting for a thread
    threads,                \* the threads created so far, in order of creation;
                            \* self.scrape_thread and self.monitor_thread are the
                            \* last two
    posted_deals            \* the rows of the table posted_deals in the store

vars == <<current_frequency, min_frequency, max_frequency, adjustment_threshold,
          scrape_count, scrape_history, last_adjustment_time, adjustment_history,
          adjustment_log_file, now, call, skipped_return, running, caller, threads,
          posted_deals>>

schedulerVars == <<running, caller, threads>>

(***************************************************************************)
(* Bounds of the model.                                                    *)
(***************************************************************************)
MaxPolls == 2           \* scrapes performed in one run
MaxTime == 2            \* evaluations of the adjustment rules in one run
NumChecks == 3          \* snapshots taken in one monitoring session

(***************************************************************************)
(* Program constants.                                                      *)
(***************************************************************************)
DefaultMinFrequency == 10
DefaultMaxFrequency == 240
DefaultAdjustmentThreshold == 5
AbsoluteMinimum == 5
AbsoluteMaximum == 360
QuickCheckInterval == 10

(***************************************************************************)
(* Python values.                                                          *)
(***************************************************************************)
None == [none |-> TRUE]
NoTime == <<>>

Max(a, b) == IF a >= b THEN a ELSE b
Min(a, b) == IF a <= b THEN a ELSE b

\* dict.get(key, default)
Get(d, key, default) == IF key \in DOMAIN d THEN d[key] ELSE default

\* exact rationals
Rat(n) == <<n, 1>>
RatAdd(a, b) == <<a[1] * b[2] + b[1] * a[2], a[2] * b[2]>>
RatHalf(a) == <<a[1], 2 * a[2]>>
RatLess(a, b) == a[1] * b[2] < b[1] * a[2]
RatEq(a, b) == a[1] * b[2] = b[1] * a[2]

(***************************************************************************)
(* Turnover analysis (src/database_monitor.py).  A session is              *)
(*   [check_interval_minutes |-> n, snapshots |-> <<snapshot, ...>>]       *)
(* with the snapshots ordered by check_number, each snapshot               *)
(*   [check_number |-> k, deals |-> {[hash |-> h, source |-> s], ...}].    *)
(***************************************************************************)
RECURSIVE Insert(_, _)
Insert(x, sorted) ==
    IF sorted = <<>> THEN <<x>>
    ELSE IF x <= Head(sorted) THEN <<x>> \o sorted
    ELSE <<Head(sorted)>> \o Insert(x, Tail(sorted))

\* list.sort()
RECURSIVE Sort(_)
Sort(list) == IF list = <<>> THEN <<>> ELSE Insert(Head(list), Sort(Tail(list)))

RECURSIVE SumOver(_, _)
SumOver(S, f) ==
    IF S = {} THEN 0
    ELSE LET x == CHOOSE y \in S : TRUE IN f[x] + SumOver(S \ {x}, f)

\* The check numbers at which the deal with this hash was recorded, in snapshot order.
RECURSIVE Appearances(_, _)
Appearances(snapshots, h) ==
    IF snapshots = <<>> THEN <<>>
    ELSE LET snapshot == Head(snapshots)
             here == IF \E d \in snapshot.deals : d.hash = h
                     THEN <<snapshot.check_number>> ELSE <<>>
         IN here \o Appearances(Tail(snapshots), h)

\* gcx_deals_timeline / cardcash_deals_timeline
Timeline(snapshots, source) ==
    LET seen == UNION {snapshots[i].deals : i \in DOMAIN snapshots}
        hashes == {d.hash : d \in {e \in seen : e.source = source}}
    IN [h \in hashes |-> Appearances(snapshots, h)]

\* a faulty guard, which lets a single appearance through
TooFewAppearancesOffByOne(appearances) == Len(appearances) < 1

\* "if len(appearances) < 2: continue"
TooFewAppearances(appearances) == Len(appearances) < 2

CalculateTurnoverStats(deal_timeline, num_snapshots, interval_minutes) ==
    LET total_deals == Cardinality(DOMAIN deal_timeline)
        \* deals with fewer than two appearances are skipped by the loop
        counted == {h \in DOMAIN deal_timeline : ~TooFewAppearances(deal_timeline[h])}
        first_seen == [h \in counted |-> Sort(deal_timeline[h])[1]]
        last_seen == [h \in counted |->
                        Sort(deal_timeline[h])[Len(deal_timeline[h])]]
        disappeared_deals ==
            Cardinality({h \in counted : last_seen[h] < num_snapshots})
        lifespan_minutes == [h \in counted |->
                        (last_seen[h] - first_seen[h] + 1) * interval_minutes]
        avg_lifetime_minutes ==
            IF counted # {}
            THEN <<SumOver(counted, lifespan_minutes), Cardinality(counted)>>
            ELSE Rat(0)
        turnover_rate == <<disappeared_deals, total_deals>>
    IN IF total_deals = 0
       THEN [total_deals_seen |-> 0]
       ELSE [total_deals_seen |-> total_deals,
             disappeared_deals |-> disappeared_deals,
             turnover_rate |-> turnover_rate,
             avg_lifetime_minutes |-> avg_lifetime_minutes]

\* float('inf')
Infinity == <<1, 0>>

\* min(a, b) of two numbers
RatMin(a, b) == IF RatLess(b, a) THEN b ELSE a

\* A recommendation is the sequence of the words of the string.
\* "sub in words" for strings
RECURSIVE Contains(_, _)
Contains(words, sub) ==
    IF Len(words) < Len(sub) THEN FALSE
    ELSE IF SubSeq(words, 1, Len(sub)) = sub THEN TRUE
    ELSE Contains(Tail(words), sub)

ExtractMinutesFromRecommendation(recommendation) ==
    IF Contains(recommendation, <<"30", "minutes">>) THEN 30
    ELSE IF Contains(recommendation, <<"1", "hour">>) THEN 60
    ELSE IF Contains(recommendation, <<"2", "hours">>) THEN 120
    ELSE 60

\* a faulty choice: the bounds of the two buckets are inclusive
OverallRecommendationInclusive(min_lifetime) ==
    IF ~RatLess(Rat(60), min_lifetime) THEN <<"Every", "30", "minutes">>
    ELSE IF ~RatLess(Rat(120), min_lifetime) THEN <<"Every", "1", "hour">>
    ELSE <<"Every", "2", "hours">>

\* the overall recommendation for the minimum lifetime
OverallRecommendation(min_lifetime) ==
    IF RatLess(min_lifetime, Rat(60)) THEN <<"Every", "30", "minutes">>
    ELSE IF RatLess(min_lifetime, Rat(120)) THEN <<"Every", "1", "hour">>
    ELSE <<"Every", "2", "hours">>

\* recommend_scraping_frequency; the texts for the single sources and the
\* reasoning, which only describe the result, are left out
RecommendScrapingFrequency(gcx_stats, cardcash_stats) ==
    LET min_lifetime == RatMin(Get(gcx_stats, "avg_lifetime_minutes", Infinity),
                               Get(cardcash_stats, "avg_lifetime_minutes", Infinity))
        overall_rec == OverallRecommendation(min_lifetime)
    IN [minutes |-> ExtractMinutesFromRecommendation(overall_rec),
        recommendation |-> overall_rec,
        confidence |-> IF min_lifetime # Infinity THEN "high" ELSE "low"]

\* "num_snapshots = len(snapshots)": the number analyze_session hands to
\* _calculate_turnover_stats as the number of the last check
NumSnapshots(snapshots) == Len(snapshots)

\* analyze_session, given the session's stored rows; the result's session_id is
\* left out.  A session without snapshots has no analysis.
AnalyzeSession(session) ==
    IF Len(session.snapshots) = 0 THEN None ELSE
    LET num_snapshots == NumSnapshots(session.snapshots)
        interval_minutes == session.check_interval_minutes
        gcx_stats == CalculateTurnoverStats(
            Timeline(session.snapshots, "raise"), num_snapshots, interval_minutes)
        cardcash_stats == CalculateTurnoverStats(
            Timeline(session.snapshots, "cardcash"), num_snapshots, interval_minutes)
    IN [gcx_stats |-> gcx_stats,
        cardcash_stats |-> cardcash_stats,
        recommendations |-> RecommendScrapingFrequency(gcx_stats, cardcash_stats)]

(***************************************************************************)
(* The catalogue: one deal of each source.  A session takes NumChecks     *)
(* snapshots.                                                              *)
(***************************************************************************)
Deals == {[hash |-> "g1", source |-> "raise"], [hash |-> "c1", source |-> "cardcash"]}

(***************************************************************************)
(* The adjustment log (src/adaptive_scraper.py).  The file                 *)
(* frequency_adjustments.json is [state |-> "absent"], [state |->          *)
(* "unreadable"] (not JSON, or not readable) or [state |-> "json",         *)
(* content |-> object].  The dashboard (src/database_dashboard.py) keeps   *)
(* its own object under the same file name.                                *)
(***************************************************************************)
EmptyHistory ==
    [adjustments |-> <<>>,
     stats |-> [total_adjustments |-> 0, increases |-> 0, decreases |-> 0]]

DashboardObject == [source_adjustments |-> [raise |-> 1, cardcash |-> 1]]

AbsentFile == [state |-> "absent"]
UnreadableFile == [state |-> "unreadable"]
JsonFile(object) == [state |-> "json", content |-> object]

LoadAdjustmentHistory(file) ==
    IF file.state = "json" THEN file.content ELSE EmptyHistory

\* outcome: "ok", "open_failed" (the file is left as it was) or "write_failed"
\* (the file was truncated by open and the dump did not complete)
SaveAdjustmentHistory(history, file, outcome) ==
    CASE outcome = "ok" -> JsonFile(history)
      [] outcome = "open_failed" -> file
      [] outcome = "write_failed" -> UnreadableFile

(***************************************************************************)
(* The frequency controller (src/adaptive_scraper.py).                     *)
(***************************************************************************)
BoundedMin(min_minutes) == Max(AbsoluteMinimum, min_minutes)
BoundedMax(max_minutes) == Min(AbsoluteMaximum, max_minutes)

\* a faulty guard, one scrape too early
EnoughScrapesOffByOne(count, threshold) == ~(count + 1 < threshold)

\* the guard of adjust_frequency: enough scrapes have been made
EnoughScrapes(count, threshold) == ~(count < threshold)

\* a faulty test: every scrape from the threshold on
AdjustDueEveryScrape(count, threshold) == EnoughScrapes(count, threshold)

\* the test after a scrape in _scraping_thread (l.227-228)
AdjustDue(count, threshold) == EnoughScrapes(count, threshold) /\ count % 4 = 0

AvgTurnover(turnover_data) ==
    LET gcx_stats == Get(turnover_data, "gcx_stats", [empty |-> TRUE])
        cardcash_stats == Get(turnover_data, "cardcash_stats", [empty |-> TRUE])
    IN RatHalf(RatAdd(Get(gcx_stats, "turnover_rate", Rat(0)),
                      Get(cardcash_stats, "turnover_rate", Rat(0))))

AvgLifetime(turnover_data) ==
    LET gcx_stats == Get(turnover_data, "gcx_stats", [empty |-> TRUE])
        cardcash_stats == Get(turnover_data, "cardcash_stats", [empty |-> TRUE])
    IN RatHalf(RatAdd(Get(gcx_stats, "avg_lifetime_minutes", Rat(120)),
                      Get(cardcash_stats, "avg_lifetime_minutes", Rat(120))))

\* a faulty chain: the low-turnover rule is tried before the very-low one
ApplyRulesLowBeforeVeryLow(current, minf, maxf, avg_turnover, avg_lifetime) ==
    IF RatLess(Rat(50), avg_turnover)
    THEN [frequency |-> Max(minf, Min(15, current - 15)),
          confidence |-> "high", reason |-> "very high turnover rate"]
    ELSE IF RatLess(Rat(30), avg_turnover)
    THEN [frequency |-> Max(minf, Min(30, current - 10)),
          confidence |-> "high", reason |-> "high turnover rate"]
    ELSE IF RatLess(avg_turnover, Rat(10))
    THEN [frequency |-> Min(maxf, current + 10),
          confidence |-> "medium", reason |-> "low turnover rate"]
    ELSE IF RatLess(avg_turnover, Rat(5)) /\ RatLess(Rat(180), avg_lifetime)
    THEN [frequency |-> Min(maxf, Max(120, current + 20)),
          confidence |-> "high", reason |-> "very low turnover and long deal lifetime"]
    ELSE IF RatLess(avg_lifetime, Rat(30))
    THEN [frequency |-> Max(minf, current - 10),
          confidence |-> "high", reason |-> "very short deal lifetime"]
    ELSE [frequency |-> current,
          confidence |-> "low", reason |-> "metrics within normal range"]

\* a faulty chain: the very-low rule adds 20 minutes without its floor of 120
ApplyRulesWithoutFloor(current, minf, maxf, avg_turnover, avg_lifetime) ==
    IF RatLess(Rat(50), avg_turnover)
    THEN [frequency |-> Max(minf, Min(15, current - 15)),
          confidence |-> "high", reason |-> "very high turnover rate"]
    ELSE IF RatLess(Rat(30), avg_turnover)
    THEN [frequency |-> Max(minf, Min(30, current - 10)),
          confidence |-> "high", reason |-> "high turnover rate"]
    ELSE IF RatLess(avg_turnover, Rat(5)) /\ RatLess(Rat(180), avg_lifetime)
    THEN [frequency |-> Min(maxf, current + 20),
          confidence |-> "high", reason |-> "very low turnover and long deal lifetime"]
    ELSE IF RatLess(avg_turnover, Rat(10))
    THEN [frequency |-> Min(maxf, current + 10),
          confidence |-> "medium", reason |-> "low turnover rate"]
    ELSE IF RatLess(avg_lifetime, Rat(30))
    THEN [frequency |-> Max(minf, current - 10),
          confidence |-> "high", reason |-> "very short deal lifetime"]
    ELSE [frequency |-> current,
          confidence |-> "low", reason |-> "metrics within normal range"]

\* a faulty chain: the test for a high turnover comes before the test for a
\* very high one
ApplyRulesHighBeforeVeryHigh(current, minf, maxf, avg_turnover, avg_lifetime) ==
    IF RatLess(Rat(30), avg_turnover)
    THEN [frequency |-> Max(minf, Min(30, current - 10)),
          confidence |-> "high", reason |-> "high turnover rate"]
    ELSE IF RatLess(Rat(50), avg_turnover)
    THEN [frequency |-> Max(minf, Min(15, current - 15)),
          confidence |-> "high", reason |-> "very high turnover rate"]
    ELSE IF RatLess(avg_turnover, Rat(5)) /\ RatLess(Rat(180), avg_lifetime)
    THEN [frequency |-> Min(maxf, Max(120, current + 20)),
          confidence |-> "high", reason |-> "very low turnover and long deal lifetime"]
    ELSE IF RatLess(avg_turnover, Rat(10))
    THEN [frequency |-> Min(maxf, current + 10),
          confidence |-> "medium", reason |-> "low turnover rate"]
    ELSE IF RatLess(avg_lifetime, Rat(30))
    THEN [frequency |-> Max(minf, current - 10),
          confidence |-> "high", reason |-> "very short deal lifetime"]
    ELSE [frequency |-> current,
          confidence |-> "low", reason |-> "metrics within normal range"]

\* the if/elif chain: the interval a rule computes, with its confidence and reason
ApplyRules(current, minf, maxf, avg_turnover, avg_lifetime) ==
    IF RatLess(Rat(50), avg_turnover)
    THEN [frequency |-> Max(minf, Min(15, current - 15)),
          confidence |-> "high", reason |-> "very high turnover rate"]
    ELSE IF RatLess(Rat(30), avg_turnover)
    THEN [frequency |-> Max(minf, Min(30, current - 10)),
          confidence |-> "high", reason |-> "high turnover rate"]
    ELSE IF RatLess(avg_turnover, Rat(5)) /\ RatLess(Rat(180), avg_lifetime)
    THEN [frequency |-> Min(maxf, Max(120, current + 20)),
          confidence |-> "high", reason |-> "very low turnover and long deal lifetime"]
    ELSE IF RatLess(avg_turnover, Rat(10))
    THEN [frequency |-> Min(maxf, current + 10),
          confidence |-> "medium", reason |-> "low turnover rate"]
    ELSE IF RatLess(avg_lifetime, Rat(30))
    THEN [frequency |-> Max(minf, current - 10),
          confidence |-> "high", reason |-> "very short deal lifetime"]
    ELSE [frequency |-> current,
          confidence |-> "low", reason |-> "metrics within normal range"]

\* "Ensure frequency stays within bounds"
ClampToBounds(frequency, minf, maxf) == Max(minf, Min(maxf, frequency))

\* a faulty test: every evaluation is logged
IntervalChangedAlways(old_frequency, new_frequency) == TRUE

\* "if old_frequency != self.current_frequency": the adjustment is logged
IntervalChanged(old_frequency, new_frequency) == old_frequency # new_frequency

\* which counter _log_adjustment increments
CountsAsIncrease(old_freq, new_freq) == new_freq < old_freq

\* _log_adjustment.  The record's "metrics" entry (the statistics it was
\* computed from) is left out: nothing reads it.
LogAdjustment(history, old_freq, new_freq, reason, confidence, time) ==
    LET adjustment == [timestamp |-> time,
                       old_frequency |-> old_freq,
                       new_frequency |-> new_freq,
                       reason |-> reason,
                       confidence |-> confidence]
        stats == history.stats
    IN [history EXCEPT
          !.adjustments = Append(@, adjustment),
          !.stats = [stats EXCEPT
              !.total_adjustments = @ + 1,
              !.increases = IF CountsAsIncrease(old_freq, new_freq) THEN @ + 1 ELSE @,
              !.decreases = IF CountsAsIncrease(old_freq, new_freq) THEN @ ELSE @ + 1]]

\* _log_adjustment raises KeyError on an object without these keys
CanLog(history) == "adjustments" \in DOMAIN history /\ "stats" \in DOMAIN history

\* what adjust_frequency returns on each of its paths
AdjustReturn(path) == None

(***************************************************************************)
(* adjust_frequency(turnover_data).  self is the controller's fields,      *)
(* analysis what the monitor's quick analysis does when it is run          *)
(* ([status |-> "raised"] or [status |-> "returned", value |-> v]).  The   *)
(* result holds the fields after the call, whether the log was saved, and  *)
(* the call's observation: the path taken, the locals reason and           *)
(* confidence, and the value returned.                                     *)
(***************************************************************************)
Observation(path, has_data, monitor_started, turnover_data, old, reason, confidence) ==
    [op |-> "adjust", path |-> path, has_data |-> has_data,
     monitor_started |-> monitor_started, turnover_data |-> turnover_data,
     old_frequency |-> old, reason |-> reason, confidence |-> confidence,
     returned |-> AdjustReturn(path)]

\* adjust_frequency, with the value read into old_frequency at l.135 given
\* apart from the interval the rules and the clamp are computed from
AdjustFrequencyFrom(self, old_frequency, time, turnover_arg, analysis) ==
    LET has_data == turnover_arg # None
    IN
    IF ~EnoughScrapes(self.scrape_count, self.adjustment_threshold)
    THEN [self |-> self, saved |-> FALSE,
          call |-> Observation("skipped", has_data, FALSE, None, old_frequency, "", "")]
    ELSE IF ~has_data /\ analysis.status = "raised"
    THEN [self |-> self, saved |-> FALSE,
          call |-> Observation("analysis_failed", has_data, TRUE, None,
                               old_frequency, "", "")]
    ELSE
    LET turnover_data == IF has_data THEN turnover_arg ELSE analysis.value IN
    IF turnover_data = None
    THEN \* None.get raises, which the handler around the rules logs
         [self |-> self, saved |-> FALSE,
          call |-> Observation("error", has_data, ~has_data, None, old_frequency, "", "")]
    ELSE
    LET rule == ApplyRules(self.current_frequency, self.min_frequency,
                           self.max_frequency, AvgTurnover(turnover_data),
                           AvgLifetime(turnover_data))
        new_frequency == ClampToBounds(rule.frequency, self.min_frequency,
                                       self.max_frequency)
        seen(path) == Observation(path, has_data, ~has_data, turnover_data,
                                  old_frequency, rule.reason, rule.confidence)
    IN
    IF ~IntervalChanged(old_frequency, new_frequency)
    THEN [self |-> [self EXCEPT !.current_frequency = new_frequency,
                                !.last_adjustment_time = <<time>>],
          saved |-> FALSE, call |-> seen("unchanged")]
    ELSE IF ~CanLog(self.adjustment_history)
    THEN \* _log_adjustment raises after the interval was assigned
         [self |-> [self EXCEPT !.current_frequency = new_frequency],
          saved |-> FALSE, call |-> seen("log_failed")]
    ELSE
    LET history == LogAdjustment(self.adjustment_history, old_frequency,
                                 new_frequency, rule.reason, rule.confidence, time)
    IN [self |-> [self EXCEPT !.current_frequency = new_frequency,
                              !.adjustment_history = history,
                              !.last_adjustment_time = <<time>>],
        saved |-> TRUE, call |-> seen("changed")]

\* adjust_frequency run without interruption: old_frequency (l.135) is the
\* interval at the call
AdjustFrequency(self, time, turnover_arg, analysis) ==
    AdjustFrequencyFrom(self, self.current_frequency, time, turnover_arg, analysis)

(***************************************************************************)
(* Inputs.                                                                 *)
(***************************************************************************)
InitialFrequencies == {5, 60, 500}      \* --initial
MinInputs == {3, 200}                   \* --min
MaxInputs == {2, 100}                   \* --max
ThresholdInputs == {1}                  \* --threshold
StartupFiles == {AbsentFile, JsonFile(DashboardObject)}
SaveOutcomes == {"ok", "open_failed"}

\* statistics a caller passes with the turnover rate in percent
Stats(turnover_rate, avg_lifetime_minutes) ==
    [turnover_rate |-> Rat(turnover_rate),
     avg_lifetime_minutes |-> Rat(avg_lifetime_minutes)]

PercentData(turnover_pairs, lifetime_pairs) ==
    {[gcx_stats |-> Stats(t[1], l[1]), cardcash_stats |-> Stats(t[2], l[2])] :
        t \in turnover_pairs, l \in lifetime_pairs}

\* a session in which the deal of each source is visible in the snapshots
\* numbered in gcx_checks and in cardcash_checks
SessionWithDealsAt(interval_minutes, gcx_checks, cardcash_checks) ==
    [check_interval_minutes |-> interval_minutes,
     snapshots |-> [i \in 1..NumChecks |->
        [check_number |-> i,
         deals |-> {d \in Deals :
                      \/ d.source = "raise" /\ i \in gcx_checks
                      \/ d.source = "cardcash" /\ i \in cardcash_checks}]]]

NotRun == [status |-> "not_run"]
Raised == [status |-> "raised"]
Returned(value) == [status |-> "returned", value |-> value]

\* the inputs of Spec: one argument for each of three rules, and an analysis
\* of a session whose deals all vanish and of one whose deals all stay
CoarseArguments ==
    {None} \cup PercentData({<<60, 60>>, <<3, 3>>, <<20, 20>>}, {<<200, 200>>})
CoarseOutcomes ==
    {Raised, Returned(None),
     Returned(AnalyzeSession(SessionWithDealsAt(QuickCheckInterval, {1, 2}, {1, 2}))),
     Returned(AnalyzeSession(SessionWithDealsAt(QuickCheckInterval,
                                                1..NumChecks, 1..NumChecks)))}

\* what analyze_session returns for sessions in which a deal is missed, seen
\* once, seen and lost, seen late, or seen throughout
SessionAnalyses ==
    {AnalyzeSession(SessionWithDealsAt(QuickCheckInterval, g, c)) :
        g \in {{}, {1}, {1, 2}, {2, 3}, 1..NumChecks},
        c \in {{1, 2}, 1..NumChecks}}

\* what analyze_session returns for a session whose snapshots hold no deal
\* (every fetch failed or found nothing)
EmptySessionAnalysis == AnalyzeSession(SessionWithDealsAt(QuickCheckInterval, {}, {}))

\* the inputs of SpecRules: arguments on both sides of every threshold of the
\* rules, statistics without a source, and analyses of sessions
RuleArguments ==
    {None} \cup SessionAnalyses \cup {EmptySessionAnalysis}
    \cup PercentData({<<60, 60>>, <<60, 40>>, <<40, 30>>, <<20, 20>>}, {<<100, 100>>})
    \cup PercentData({<<3, 3>>, <<6, 4>>}, {<<200, 200>>, <<180, 180>>})
    \cup PercentData({<<40, 20>>, <<10, 10>>}, {<<20, 20>>, <<30, 30>>})
    \cup {[gcx_stats |-> Stats(60, 20), cardcash_stats |-> [total_deals_seen |-> 0]],
          [cardcash_stats |-> Stats(3, 300)]}
RuleOutcomes ==
    {Raised, Returned(None), Returned(EmptySessionAnalysis)}
    \cup {Returned(a) : a \in SessionAnalyses}

(***************************************************************************)
(* State machine.                                                          *)
(***************************************************************************)
NoCall == [op |-> "none"]

Self ==
    [current_frequency |-> current_frequency,
     min_frequency |-> min_frequency,
     max_frequency |-> max_frequency,
     adjustment_threshold |-> adjustment_threshold,
     scrape_count |-> scrape_count,
     last_adjustment_time |-> last_adjustment_time,
     adjustment_history |-> adjustment_history]

\* AdaptiveScraper.__init__
Init ==
    /\ current_frequency \in InitialFrequencies
    /\ min_frequency = DefaultMinFrequency
    /\ max_frequency = DefaultMaxFrequency
    /\ adjustment_threshold = DefaultAdjustmentThreshold
    /\ scrape_count = 0
    /\ scrape_history = <<>>
    /\ last_adjustment_time = NoTime
    /\ adjustment_log_file \in StartupFiles
    /\ adjustment_history = LoadAdjustmentHistory(adjustment_log_file)
    /\ now = 0
    /\ call = NoCall
    /\ skipped_return = <<>>
    /\ running = FALSE
    /\ caller = "idle"
    /\ threads = <<>>
    /\ posted_deals = {}

SetFrequencyBounds(min_minutes, max_minutes) ==
    /\ min_frequency' = BoundedMin(min_minutes)
    /\ max_frequency' = BoundedMax(max_minutes)
    /\ call' = NoCall
    /\ UNCHANGED <<current_frequency, adjustment_threshold, scrape_count,
                   scrape_history, last_adjustment_time, adjustment_history,
                   adjustment_log_file, now, skipped_return>>
    /\ UNCHANGED <<schedulerVars, posted_deals>>

\* main: scraper.adjustment_threshold = args.threshold
SetAdjustmentThreshold(threshold) ==
    /\ adjustment_threshold' = threshold
    /\ call' = NoCall
    /\ UNCHANGED <<current_frequency, min_frequency, max_frequency, scrape_count,
                   scrape_history, last_adjustment_time, adjustment_history,
                   adjustment_log_file, now, skipped_return>>
    /\ UNCHANGED <<schedulerVars, posted_deals>>

RuleEvaluations == {"unchanged", "changed", "log_failed"}

\* the fields, the file and the observation after adjust_frequency
Adjusted(result) ==
    /\ now' = IF result.call.path \in RuleEvaluations THEN now + 1 ELSE now
    /\ current_frequency' = result.self.current_frequency
    /\ last_adjustment_time' = result.self.last_adjustment_time
    /\ adjustment_history' = result.self.adjustment_history
    /\ \E save \in IF result.saved THEN SaveOutcomes ELSE {"ok"} :
          adjustment_log_file' =
              IF result.saved
              THEN SaveAdjustmentHistory(result.self.adjustment_history,
                                         adjustment_log_file, save)
              ELSE adjustment_log_file
    /\ call' = result.call
    /\ skipped_return' = IF result.call.path = "skipped"
                         THEN <<result.call.returned>> ELSE skipped_return

\* a call of adjust_frequency from outside the scraping thread
CallAdjustFrequency(arguments, outcomes) ==
    /\ now < MaxTime
    /\ \E turnover_arg \in arguments :
         \E analysis \in IF turnover_arg = None THEN outcomes ELSE {NotRun} :
           \E result \in {AdjustFrequency(Self, now, turnover_arg, analysis)} :
              Adjusted(result)
    /\ UNCHANGED <<min_frequency, max_frequency, adjustment_threshold,
                   scrape_count, scrape_history>>
    /\ UNCHANGED <<schedulerVars, posted_deals>>

\* one pass of the scraping thread's loop in which process_deals returns
ScrapeCycle(outcomes) ==
    /\ scrape_count < MaxPolls
    /\ scrape_count' = scrape_count + 1
    /\ scrape_history' = Append(scrape_history,
            [timestamp |-> now, frequency_minutes |-> current_frequency])
    /\ IF AdjustDue(scrape_count + 1, adjustment_threshold)
       THEN /\ now < MaxTime
            /\ \E analysis \in outcomes :
                 \E result \in {AdjustFrequency(
                                [Self EXCEPT !.scrape_count = scrape_count + 1],
                                now, None, analysis)} :
                    Adjusted(result)
       ELSE /\ call' = NoCall
            /\ UNCHANGED <<current_frequency, last_adjustment_time,
                           adjustment_history, adjustment_log_file, skipped_return,
                           now>>
    /\ UNCHANGED <<min_frequency, max_frequency, adjustment_threshold>>
    /\ UNCHANGED <<schedulerVars, posted_deals>>

\* one pass in which process_deals raises: the handler logs it and the loop goes on
ScrapeFails ==
    /\ call' = NoCall
    /\ UNCHANGED <<current_frequency, min_frequency, max_frequency,
                   adjustment_threshold, scrape_count, scrape_history,
                   last_adjustment_time, adjustment_history, adjustment_log_file,
                   now, skipped_return>>
    /\ UNCHANGED <<schedulerVars, posted_deals>>

Next ==
    \/ \E min_minutes \in MinInputs, max_minutes \in MaxInputs :
          SetFrequencyBounds(min_minutes, max_minutes)
    \/ \E threshold \in ThresholdInputs : SetAdjustmentThreshold(threshold)
    \/ CallAdjustFrequency(CoarseArguments, CoarseOutcomes)
    \/ ScrapeCycle(CoarseOutcomes)
    \/ ScrapeFails

Spec == Init /\ [][Next]_vars

(***************************************************************************)
(* The controller under a wide range of metrics: the log file is absent at *)
(* startup, the scraper starts at 60 minutes and the bounds are the         *)
(* defaults or one of two configured pairs.                                *)
(***************************************************************************)
InitRules == Init /\ adjustment_log_file = AbsentFile /\ current_frequency = 60

NextRules ==
    \/ \E bounds \in {<<20, 100>>, <<200, 240>>} :
          SetFrequencyBounds(bounds[1], bounds[2])
    \/ \E threshold \in ThresholdInputs : SetAdjustmentThreshold(threshold)
    \/ CallAdjustFrequency(RuleArguments, RuleOutcomes)
    \/ ScrapeCycle(RuleOutcomes)

SpecRules == InitRules /\ [][NextRules]_vars

(***************************************************************************)
(* Repeated adjustment: the scraper is constructed with any of the initial *)
(* intervals, its bounds are set once with min <= max, and after a first   *)
(* call that evaluated the rules adjust_frequency is called again and      *)
(* again with the statistics of that call.                                 *)
(***************************************************************************)
MaxRepeats == 40        \* evaluations of the rules in one run of repeated calls

\* --min and --max with min <= max: the defaults, a narrow range, a range above
\* the initial interval, and the widest range set_frequency_bounds admits
RepeatBounds == {<<10, 240>>, <<20, 100>>, <<200, 240>>, <<3, 400>>}

InitRepeat == Init /\ adjustment_log_file = AbsentFile

\* statistics for each of the rules, and the statistics of an empty session
RepeatArguments ==
    PercentData({<<60, 60>>, <<40, 30>>, <<20, 20>>}, {<<100, 100>>})
    \cup PercentData({<<3, 3>>, <<6, 4>>}, {<<200, 200>>})
    \cup PercentData({<<20, 20>>}, {<<20, 20>>})
    \cup {EmptySessionAnalysis}

\* adjust_frequency is called once more with the statistics of the last call;
\* the save of the log succeeds
RepeatAdjustFrequency ==
    /\ call.op = "adjust" /\ call.path \in RuleEvaluations
    /\ now < MaxRepeats
    /\ \E result \in {AdjustFrequency(Self, now, call.turnover_data, NotRun)} :
          /\ now' = now + 1
          /\ current_frequency' = result.self.current_frequency
          /\ last_adjustment_time' = result.self.last_adjustment_time
          /\ adjustment_history' = result.self.adjustment_history
          /\ adjustment_log_file' =
                IF result.saved
                THEN SaveAdjustmentHistory(result.self.adjustment_history,
                                           adjustment_log_file, "ok")
                ELSE adjustment_log_file
          /\ call' = result.call
    /\ UNCHANGED <<min_frequency, max_frequency, adjustment_threshold,
                   scrape_count, scrape_history, skipped_return>>
    /\ UNCHANGED <<schedulerVars, posted_deals>>

NextRepeat ==
    \/ call = NoCall /\ \E bounds \in RepeatBounds :
                           SetFrequencyBounds(bounds[1], bounds[2])
    \/ call = NoCall /\ \E threshold \in ThresholdInputs :
                           SetAdjustmentThreshold(threshold)
    \/ call = NoCall /\ ScrapeCycle(RuleOutcomes)
    \/ call = NoCall /\ CallAdjustFrequency(RepeatArguments, {NotRun})
    \/ RepeatAdjustFrequency

SpecRepeat == InitRepeat /\ [][NextRepeat]_vars

\* the caller goes on calling: a further call that can be made is made
SpecRepeatFair == SpecRepeat /\ WF_vars(RepeatAdjustFrequency)

(***************************************************************************)
(* The analyzer alone: analyze_session is applied to the stored rows of    *)
(* any session over a catalogue of three deals.  Recording a snapshot can  *)
(* fail (run_monitoring_session then goes on with the next check number),  *)
(* so the recorded check numbers are any subset of 1..NumChecks; each deal *)
(* is linked to any of the recorded snapshots.  A deal is linked to a      *)
(* snapshot at most once (the link is written with upsert).                *)
(***************************************************************************)
AnalysisDeals ==
    {[hash |-> "g1", source |-> "raise"], [hash |-> "g2", source |-> "raise"],
     [hash |-> "c1", source |-> "cardcash"]}

\* check_interval_minutes of the sessions
AnalysisIntervals == {10, 30, 60}

\* the k-th smallest element of a set of numbers
Nth(S, k) == CHOOSE x \in S : Cardinality({y \in S : y < x}) = k - 1

\* the rows of a session: its snapshots ordered by check_number
StoredSession(interval_minutes, recorded, presence) ==
    [check_interval_minutes |-> interval_minutes,
     snapshots |-> [k \in 1..Cardinality(recorded) |->
        [check_number |-> Nth(recorded, k),
         deals |-> {d \in AnalysisDeals : Nth(recorded, k) \in presence[d]}]]]

StoredSessions ==
    UNION {{StoredSession(interval_minutes, recorded, presence) :
                interval_minutes \in AnalysisIntervals,
                presence \in [AnalysisDeals -> SUBSET recorded]} :
           recorded \in SUBSET (1..NumChecks)}

\* a call of analyze_session; a run analyzes one session
AnalyzeCall(session) ==
    /\ call = NoCall
    /\ call' = [op |-> "analyze", session |-> session,
                result |-> AnalyzeSession(session)]
    /\ UNCHANGED <<current_frequency, min_frequency, max_frequency,
                   adjustment_threshold, scrape_count, scrape_history,
                   last_adjustment_time, adjustment_history, adjustment_log_file,
                   now, skipped_return>>
    /\ UNCHANGED <<schedulerVars, posted_deals>>

NextAnalyze == \E session \in StoredSessions : AnalyzeCall(session)

SpecAnalyze == InitRules /\ [][NextAnalyze]_vars

(***************************************************************************)
(* The scheduler: start_adaptive_scraping, stop_adaptive_scraping and the  *)
(* two threads they create.  A thread is                                   *)
(*   [target |-> "scrape" or "monitor", pc |-> where it is,                *)
(*    wait |-> the seconds of the back-off it sleeps after an exception,   *)
(*    old_frequency, turnover_data |-> locals of its adjust_frequency,     *)
(*    buffer |-> the text json.dump wrote and close has yet to flush,      *)
(*    waiting |-> the sleep it is in or the wait loop it runs].            *)
(* A scraping thread is at "loop" (the test of while self.running),        *)
(* "process" (in process_deals), "adjust" (in adjust_frequency before      *)
(* l.135), "update" (between l.135 and the dump of the log), "save"        *)
(* (before the log file is closed), "sleep" (the wait for the next         *)
(* scrape), "backoff" or "dead"; a monitoring thread is at "warmup",       *)
(* "loop", "session" (in the monitor), "adjust", "update", "save",         *)
(* "recheck" (the three-hour wait), "backoff" or "dead".  Where the wait   *)
(* loops are followed sleep by sleep a thread is at "check" (the test of   *)
(* self.running in the loop) or "asleep" (in time.sleep).  The threads     *)
(* take their steps in any order.                                          *)
(***************************************************************************)
MaxCycles == 8          \* scrapes performed in one run of the scheduler
MaxThreads == 4         \* threads created in one run of the scheduler
MaxRounds == 4          \* scrapes performed by a scraper that is never stopped

ScrapeBackoffSeconds == 60
MonitorBackoffSeconds == 1800

Thread(target, pc) ==
    [target |-> target, pc |-> pc, wait |-> 0, old_frequency |-> 0,
     turnover_data |-> None, buffer |-> None, waiting |-> None]

\* a thread in one call of time.sleep(seconds)
Asleep(seconds) ==
    [wait_seconds |-> seconds, left |-> 0, asleep |-> seconds, slept |-> 0,
     planned |-> seconds]

\* a faulty test: start does not look at the flag
AlreadyRunningIgnored(flag) == FALSE

\* "if self.running:" in start_adaptive_scraping
AlreadyRunning(flag) == flag

\* a faulty wait: join without a timeout returns only when the thread ended
JoinWithoutTimeout(alive) == ~alive

\* thread.join(timeout=60) returns when the thread ended or 60 seconds passed
JoinReturns(alive) == ~alive \/ alive

\* a faulty handler: the exception leaves the loop and the thread ends
AfterExceptionOutsideLoop(target) == [pc |-> "dead", wait |-> 0]

\* the except clause inside the loop of a thread: log, then sleep
AfterException(target) ==
    [pc |-> "backoff",
     wait |-> IF target = "scrape" THEN ScrapeBackoffSeconds
              ELSE MonitorBackoffSeconds]

\* where a thread goes on after adjust_frequency returned
AfterAdjust(target) == IF target = "scrape" THEN "sleep" ELSE "recheck"

\* is_alive() of self.scrape_thread and of self.monitor_thread
ScrapeThreadAlive == Len(threads) >= 2 /\ threads[Len(threads) - 1].pc # "dead"
MonitorThreadAlive == Len(threads) >= 2 /\ threads[Len(threads)].pc # "dead"

\* what the monitor does when the scheduler runs it
SchedulerOutcomes ==
    {Raised,
     Returned(AnalyzeSession(SessionWithDealsAt(QuickCheckInterval,
                                                1..NumChecks, 1..NumChecks)))}

controllerVars == <<current_frequency, min_frequency, max_frequency,
                    adjustment_threshold, scrape_count, scrape_history,
                    last_adjustment_time, adjustment_history, adjustment_log_file,
                    now, skipped_return>>

StartAdaptiveScraping ==
    /\ caller = "idle"
    /\ IF AlreadyRunning(running)
       THEN /\ call' = [op |-> "start", signal |-> "warning", raised |-> FALSE]
            /\ UNCHANGED <<running, threads>>
       ELSE /\ Len(threads) + 2 <= MaxThreads
            /\ running' = TRUE
            /\ threads' = threads \o
                  <<Thread("scrape", "loop"),
                    [Thread("monitor", "warmup") EXCEPT
                        !.waiting = Asleep(current_frequency * 60 * 2)]>>
            /\ call' = [op |-> "start", signal |-> "info", raised |-> FALSE]
    /\ UNCHANGED caller
    /\ UNCHANGED controllerVars
    /\ UNCHANGED posted_deals

\* stop_adaptive_scraping up to its first join
StopBegin ==
    /\ caller = "idle"
    /\ running' = FALSE
    /\ caller' = "join_scrape"
    /\ call' = [op |-> "stop", returned |-> FALSE]
    /\ UNCHANGED threads
    /\ UNCHANGED controllerVars
    /\ UNCHANGED posted_deals

\* the wait for the scraping thread ends
StopJoinScrape ==
    /\ caller = "join_scrape"
    /\ ScrapeThreadAlive => JoinReturns(ScrapeThreadAlive)
    /\ caller' = "join_monitor"
    /\ UNCHANGED <<running, threads, call>>
    /\ UNCHANGED controllerVars
    /\ UNCHANGED posted_deals

\* the wait for the monitoring thread ends and stop_adaptive_scraping returns
StopJoinMonitor ==
    /\ caller = "join_monitor"
    /\ MonitorThreadAlive => JoinReturns(MonitorThreadAlive)
    /\ caller' = "idle"
    /\ call' = [op |-> "stop", returned |-> TRUE]
    /\ UNCHANGED <<running, threads>>
    /\ UNCHANGED controllerVars
    /\ UNCHANGED posted_deals

\* thread i goes to pc; nothing else changes
Goes(i, pc) ==
    /\ threads' = [threads EXCEPT ![i] =
            [@ EXCEPT !.pc = pc, !.wait = 0, !.waiting = None]]
    /\ call' = NoCall
    /\ UNCHANGED <<running, caller>>
    /\ UNCHANGED controllerVars
    /\ UNCHANGED posted_deals

\* thread i catches an exception at the bottom of its loop
Fails(i) ==
    /\ threads' = [threads EXCEPT ![i] =
            [@ EXCEPT !.pc = AfterException(threads[i].target).pc,
                      !.wait = AfterException(threads[i].target).wait]]
    /\ call' = NoCall
    /\ UNCHANGED <<running, caller>>
    /\ UNCHANGED controllerVars

\* "while self.running:" in either thread
ThreadLoop(i) ==
    /\ threads[i].pc = "loop"
    /\ IF ~running THEN Goes(i, "dead")
       ELSE IF threads[i].target = "scrape" THEN Goes(i, "process")
       ELSE \E six_hours_passed \in
                IF last_adjustment_time = NoTime THEN {TRUE} ELSE BOOLEAN :
              Goes(i, IF six_hours_passed THEN "session" ELSE "recheck")

\* process_deals returns: the scrape is counted and recorded
ScrapeSucceeds(i, max_count) ==
    /\ threads[i].target = "scrape" /\ threads[i].pc = "process"
    /\ scrape_count < max_count
    /\ scrape_count' = scrape_count + 1
    /\ scrape_history' = Append(scrape_history,
            [timestamp |-> now, frequency_minutes |-> current_frequency])
    /\ threads' = [threads EXCEPT ![i].pc =
            IF AdjustDue(scrape_count + 1, adjustment_threshold)
            THEN "adjust" ELSE "sleep"]
    /\ call' = NoCall
    /\ UNCHANGED <<current_frequency, min_frequency, max_frequency,
                   adjustment_threshold, last_adjustment_time, adjustment_history,
                   adjustment_log_file, now, skipped_return, running, caller>>
    /\ UNCHANGED posted_deals

\* process_deals raises
ScrapeRaises(i) ==
    /\ threads[i].target = "scrape" /\ threads[i].pc = "process"
    /\ Fails(i)
    /\ UNCHANGED posted_deals

\* the wait of a thread ends: the time is over or self.running is seen False
WaitEnds(i) ==
    /\ threads[i].pc \in {"sleep", "backoff", "warmup", "recheck"}
    /\ Goes(i, "loop")

WaitInterval == 30
RecheckSeconds == 300
RecheckCount == 36

\* the seconds a scrape, with the adjustment after it, has taken
ElapsedInputs == {0, 230, 275, 300, 400}

\* a faulty sleep: always the whole wait_interval
SleepLengthWholeInterval(wait_interval, wait_seconds) == wait_interval

\* min(wait_interval, wait_seconds) in time.sleep (l.242)
SleepLength(wait_interval, wait_seconds) ==
    IF wait_interval <= wait_seconds THEN wait_interval ELSE wait_seconds

\* a faulty plan: the wait is computed from the interval recorded with the
\* scrape, before adjust_frequency ran
SleepPlanFromRecordedInterval(i) ==
    /\ threads[i].target = "scrape" /\ threads[i].pc = "sleep"
    /\ \E elapsed_seconds \in ElapsedInputs :
          LET recorded == scrape_history[Len(scrape_history)].frequency_minutes
              wait_seconds == Max(0, (recorded * 60) - elapsed_seconds)
          IN threads' = [threads EXCEPT ![i] =
                [@ EXCEPT !.pc = "check",
                          !.waiting = [wait_seconds |-> wait_seconds,
                                       left |-> (wait_seconds \div WaitInterval) + 1,
                                       asleep |-> 0, slept |-> 0,
                                       planned |-> wait_seconds]]]
    /\ call' = NoCall
    /\ UNCHANGED <<running, caller>>
    /\ UNCHANGED controllerVars
    /\ UNCHANGED posted_deals

\* the scraping thread computes its wait and the range of its loop (l.231-239)
SleepPlan(i) ==
    /\ threads[i].target = "scrape" /\ threads[i].pc = "sleep"
    /\ \E elapsed_seconds \in ElapsedInputs :
          LET wait_seconds == Max(0, (current_frequency * 60) - elapsed_seconds)
          IN threads' = [threads EXCEPT ![i] =
                [@ EXCEPT !.pc = "check",
                          !.waiting = [wait_seconds |-> wait_seconds,
                                       left |-> (wait_seconds \div WaitInterval) + 1,
                                       asleep |-> 0, slept |-> 0,
                                       planned |-> wait_seconds]]]
    /\ call' = NoCall
    /\ UNCHANGED <<running, caller>>
    /\ UNCHANGED controllerVars
    /\ UNCHANGED posted_deals

\* the monitoring thread enters "for _ in range(36)" (l.269)
RecheckPlan(i) ==
    /\ threads[i].target = "monitor" /\ threads[i].pc = "recheck"
    /\ threads' = [threads EXCEPT ![i] =
          [@ EXCEPT !.pc = "check",
                    !.waiting = [wait_seconds |-> RecheckCount * RecheckSeconds,
                                 left |-> RecheckCount, asleep |-> 0, slept |-> 0,
                                 planned |-> RecheckCount * RecheckSeconds]]]
    /\ call' = NoCall
    /\ UNCHANGED <<running, caller>>
    /\ UNCHANGED controllerVars
    /\ UNCHANGED posted_deals

\* one pass of a wait loop up to its time.sleep: the loop is over, or
\* self.running is seen False, or the thread goes to sleep (l.239-242, l.269-272)
WaitCheck(i) ==
    /\ threads[i].pc = "check"
    /\ IF threads[i].waiting.left = 0 \/ ~running
       THEN Goes(i, "loop")
       ELSE /\ threads' = [threads EXCEPT ![i] =
                  [@ EXCEPT !.pc = "asleep",
                            !.waiting.asleep =
                                IF threads[i].target = "scrape"
                                THEN SleepLength(WaitInterval,
                                                 threads[i].waiting.wait_seconds)
                                ELSE RecheckSeconds]]
            /\ call' = NoCall
            /\ UNCHANGED <<running, caller>>
            /\ UNCHANGED controllerVars
            /\ UNCHANGED posted_deals

\* time.sleep returns; the scraping thread subtracts wait_interval (l.243)
WaitWakes(i) ==
    /\ threads[i].pc = "asleep"
    /\ threads' = [threads EXCEPT ![i] =
          [@ EXCEPT !.pc = "check",
                    !.waiting = [@ EXCEPT
                        !.wait_seconds = @ - (IF threads[i].target = "scrape"
                                              THEN WaitInterval ELSE RecheckSeconds),
                        !.left = @ - 1,
                        !.slept = @ + threads[i].waiting.asleep,
                        !.asleep = 0]]]
    /\ call' = NoCall
    /\ UNCHANGED <<running, caller>>
    /\ UNCHANGED controllerVars
    /\ UNCHANGED posted_deals

\* a sleep that does not look at self.running ends: the back-off after an
\* exception (l.247, l.276) or the monitoring thread's first sleep (l.252)
BlockingSleepEnds(i) ==
    /\ threads[i].pc \in {"backoff", "warmup"}
    /\ Goes(i, "loop")

\* the monitoring thread's session and analysis
MonitorSession(i) ==
    /\ threads[i].target = "monitor" /\ threads[i].pc = "session"
    /\ \E outcome \in SchedulerOutcomes :
          IF outcome = Raised THEN Fails(i)
          ELSE /\ threads' = [threads EXCEPT ![i] =
                      [@ EXCEPT !.pc = "adjust", !.turnover_data = outcome.value]]
               /\ call' = NoCall
               /\ UNCHANGED <<running, caller>>
               /\ UNCHANGED controllerVars
    /\ UNCHANGED posted_deals

\* adjust_frequency up to l.135: the call returns early, or the thread reads
\* old_frequency and is inside the lines that update the interval and the log
AdjustEnter(i) ==
    /\ threads[i].pc = "adjust"
    /\ now < MaxTime
    /\ \E analysis \in IF threads[i].turnover_data = None
                        THEN SchedulerOutcomes ELSE {NotRun} :
         \E result \in {AdjustFrequency(Self, now, threads[i].turnover_data,
                                         analysis)} :
            IF result.call.path \in RuleEvaluations
            THEN /\ threads' = [threads EXCEPT ![i] =
                        [@ EXCEPT !.pc = "update",
                                  !.old_frequency = current_frequency,
                                  !.turnover_data = result.call.turnover_data]]
                 /\ call' = NoCall
                 /\ UNCHANGED controllerVars
            ELSE /\ threads' = [threads EXCEPT ![i] =
                        [@ EXCEPT !.pc = AfterAdjust(threads[i].target),
                                  !.turnover_data = None]]
                 /\ Adjusted(result)
                 /\ UNCHANGED <<min_frequency, max_frequency,
                                adjustment_threshold, scrape_count, scrape_history>>
    /\ UNCHANGED <<running, caller>>
    /\ UNCHANGED posted_deals

\* open(self.adjustment_log_file, 'w') leaves an empty file, which is not JSON
OpenForWriting(file) == UnreadableFile

\* closing the file writes the buffered text at the start of the file: text
\* that another thread wrote since the file was opened stays behind it where
\* it is longer, and the file is then no JSON document.  The history only
\* grows, so the text with more records is the longer one.
FlushBuffer(file, buffer) ==
    IF /\ file.state = "json"
       /\ "adjustments" \in DOMAIN file.content
       /\ Len(file.content.adjustments) > Len(buffer.adjustments)
    THEN UnreadableFile
    ELSE JsonFile(buffer)

\* adjust_frequency from the rules (l.139) to its end, or, when the change is
\* logged, to the json.dump in _save_adjustment_history (l.84-86)
AdjustExit(i) ==
    /\ threads[i].pc = "update"
    /\ \E result \in {AdjustFrequencyFrom(Self, threads[i].old_frequency, now,
                                           threads[i].turnover_data, NotRun)} :
          IF result.saved
          THEN /\ now' = now + 1
               /\ current_frequency' = result.self.current_frequency
               /\ adjustment_history' = result.self.adjustment_history
               /\ adjustment_log_file' = OpenForWriting(adjustment_log_file)
               /\ call' = result.call
               /\ threads' = [threads EXCEPT ![i] =
                      [@ EXCEPT !.pc = "save",
                                !.buffer = result.self.adjustment_history,
                                !.old_frequency = 0, !.turnover_data = None]]
               /\ UNCHANGED <<last_adjustment_time, skipped_return>>
          ELSE /\ Adjusted(result)
               /\ threads' = [threads EXCEPT ![i] =
                      [@ EXCEPT !.pc = AfterAdjust(threads[i].target),
                                !.old_frequency = 0, !.turnover_data = None]]
    /\ UNCHANGED <<min_frequency, max_frequency, adjustment_threshold,
                   scrape_count, scrape_history, running, caller>>
    /\ UNCHANGED posted_deals

\* the end of the with block in _save_adjustment_history (l.84-86), and
\* l.173 of adjust_frequency
SaveClose(i) ==
    /\ threads[i].pc = "save"
    /\ adjustment_log_file' = FlushBuffer(adjustment_log_file, threads[i].buffer)
    /\ last_adjustment_time' = <<now>>
    /\ threads' = [threads EXCEPT ![i] =
            [@ EXCEPT !.pc = AfterAdjust(threads[i].target), !.buffer = None]]
    /\ call' = NoCall
    /\ UNCHANGED <<current_frequency, min_frequency, max_frequency,
                   adjustment_threshold, scrape_count, scrape_history,
                   adjustment_history, now, skipped_return, running, caller>>
    /\ UNCHANGED posted_deals

\* a new AdaptiveScraper is constructed over the file after the scraper was
\* stopped and its threads have ended; the list keeps the ended threads
Restart ==
    /\ ~running /\ caller = "idle"
    /\ threads # <<>>
    /\ \A i \in DOMAIN threads : threads[i].pc = "dead"
    /\ call.op # "restart"
    /\ current_frequency' = 60
    /\ min_frequency' = DefaultMinFrequency
    /\ max_frequency' = DefaultMaxFrequency
    /\ adjustment_threshold' = DefaultAdjustmentThreshold
    /\ scrape_count' = 0
    /\ scrape_history' = <<>>
    /\ last_adjustment_time' = NoTime
    /\ adjustment_history' = LoadAdjustmentHistory(adjustment_log_file)
    /\ call' = [op |-> "restart", before |-> adjustment_history]
    /\ UNCHANGED <<adjustment_log_file, now, skipped_return, running, caller,
                   threads>>
    /\ UNCHANGED posted_deals

RecentWindow == 5

\* a faulty slice: the first five scrapes instead of the last five
LatestScrapesFromStart(history) ==
    SubSeq(history, 1, Min(RecentWindow, Len(history)))

\* self.scrape_history[-5:] if self.scrape_history else []
LatestScrapes(history) ==
    IF Len(history) = 0 THEN <<>>
    ELSE SubSeq(history, Max(1, Len(history) - RecentWindow + 1), Len(history))

\* datetime.isoformat(): the text of a time
IsoFormat(time) == [isoformat |-> time]

\* get_status, given the fields, the scrape history and the flag
GetStatus(self, history, running_flag) ==
    [running |-> running_flag,
     current_frequency_minutes |-> self.current_frequency,
     scrape_count |-> self.scrape_count,
     last_adjustment |-> IF self.last_adjustment_time # NoTime
                         THEN IsoFormat(self.last_adjustment_time[1]) ELSE None,
     min_frequency |-> self.min_frequency,
     max_frequency |-> self.max_frequency,
     adjustment_threshold |-> self.adjustment_threshold,
     latest_scrapes |-> LatestScrapes(history)]

\* main asks for the status once a minute
CallGetStatus ==
    /\ caller = "idle"
    /\ call' = [op |-> "status", result |-> GetStatus(Self, scrape_history, running)]
    /\ UNCHANGED <<running, caller, threads>>
    /\ UNCHANGED controllerVars
    /\ UNCHANGED posted_deals

\* main sets the threshold before it starts the scraper
ConfigureThreshold ==
    /\ threads = <<>>
    /\ \E threshold \in ThresholdInputs : SetAdjustmentThreshold(threshold)

\* The threads at work: the scraper is configured and started once, and may
\* be stopped; up to MaxCycles scrapes are made.
NextThreads ==
    \/ ConfigureThreshold
    \/ (threads = <<>> \/ running) /\ StartAdaptiveScraping
    \/ StopBegin
    \/ StopJoinScrape
    \/ StopJoinMonitor
    \/ \E i \in DOMAIN threads : ThreadLoop(i)
    \/ \E i \in DOMAIN threads : ScrapeSucceeds(i, MaxCycles)
    \/ \E i \in DOMAIN threads : ScrapeRaises(i)
    \/ \E i \in DOMAIN threads : WaitEnds(i)
    \/ \E i \in DOMAIN threads : MonitorSession(i)
    \/ \E i \in DOMAIN threads : AdjustEnter(i)
    \/ \E i \in DOMAIN threads : AdjustExit(i)
    \/ \E i \in DOMAIN threads : SaveClose(i)
    \/ CallGetStatus
    \/ Restart

SpecThreads == InitRules /\ [][NextThreads]_vars

\* Starting and stopping: the scraper runs with the default threshold and is
\* started and stopped in any order; up to MaxPolls scrapes are made, fewer
\* than the threshold, so that every adjust_frequency returns at l.104.
NextStartStop ==
    \/ StartAdaptiveScraping
    \/ StopBegin
    \/ StopJoinScrape
    \/ StopJoinMonitor
    \/ \E i \in DOMAIN threads : ThreadLoop(i)
    \/ \E i \in DOMAIN threads : ScrapeSucceeds(i, MaxPolls)
    \/ \E i \in DOMAIN threads : ScrapeRaises(i)
    \/ \E i \in DOMAIN threads : WaitEnds(i)
    \/ \E i \in DOMAIN threads : MonitorSession(i)
    \/ \E i \in DOMAIN threads : AdjustEnter(i)

SpecStartStop == InitRules /\ [][NextStartStop]_vars

\* The waits sleep by sleep: the scraper starts at 5 minutes with the default
\* threshold and is started once; up to MaxPolls scrapes are made.
InitSleep == Init /\ adjustment_log_file = AbsentFile /\ current_frequency = 5

NextSleep ==
    \/ (threads = <<>> \/ running) /\ StartAdaptiveScraping
    \/ StopBegin
    \/ StopJoinScrape
    \/ StopJoinMonitor
    \/ \E i \in DOMAIN threads : ThreadLoop(i)
    \/ \E i \in DOMAIN threads : ScrapeSucceeds(i, MaxPolls)
    \/ \E i \in DOMAIN threads : ScrapeRaises(i)
    \/ \E i \in DOMAIN threads : MonitorSession(i)
    \/ \E i \in DOMAIN threads : AdjustEnter(i)
    \/ \E i \in DOMAIN threads : SleepPlan(i)
    \/ \E i \in DOMAIN threads : RecheckPlan(i)
    \/ \E i \in DOMAIN threads : WaitCheck(i)
    \/ \E i \in DOMAIN threads : WaitWakes(i)
    \/ \E i \in DOMAIN threads : BlockingSleepEnds(i)

SpecSleep == InitSleep /\ [][NextSleep]_vars

\* a wait loop as a whole: it runs to its end or sees self.running False
\* (l.239-243, l.269-272)
WaitLoopEnds(i) ==
    /\ threads[i].pc = "check"
    /\ Goes(i, "loop")

\* One scraper from its start on, never stopped: every scrape is followed by
\* the adjustment that is due and by the plan of the wait; up to MaxRounds
\* scrapes are made.
NextCycle ==
    \/ ConfigureThreshold
    \/ threads = <<>> /\ StartAdaptiveScraping
    \/ \E i \in DOMAIN threads : ThreadLoop(i)
    \/ \E i \in DOMAIN threads : ScrapeSucceeds(i, MaxRounds)
    \/ \E i \in DOMAIN threads : ScrapeRaises(i)
    \/ \E i \in DOMAIN threads : MonitorSession(i)
    \/ \E i \in DOMAIN threads : AdjustEnter(i)
    \/ \E i \in DOMAIN threads : AdjustExit(i)
    \/ \E i \in DOMAIN threads : SaveClose(i)
    \/ \E i \in DOMAIN threads : SleepPlan(i)
    \/ \E i \in DOMAIN threads : RecheckPlan(i)
    \/ \E i \in DOMAIN threads : WaitLoopEnds(i)
    \/ \E i \in DOMAIN threads : BlockingSleepEnds(i)

SpecCycle == InitRules /\ [][NextCycle]_vars

\* a step of a scraping thread
ScrapeThreadStep ==
    \E i \in {j \in DOMAIN threads : threads[j].target = "scrape"} :
        \/ ThreadLoop(i)
        \/ ScrapeSucceeds(i, MaxRounds)
        \/ ScrapeRaises(i)
        \/ AdjustEnter(i)
        \/ AdjustExit(i)
        \/ SaveClose(i)
        \/ SleepPlan(i)
        \/ WaitLoopEnds(i)
        \/ BlockingSleepEnds(i)

\* The scraping thread is scheduled, every call it makes (process_deals, the
\* monitor's session and analysis, the writes of the log) returns or raises,
\* and every sleep ends: a step the thread can take is taken.  Nothing is
\* assumed about the monitoring thread.
SpecCycleFair == SpecCycle /\ WF_vars(ScrapeThreadStep)

\* stop_adaptive_scraping runs in the caller's thread, and each join has a
\* timeout of 60 seconds: a wait that may end does end.  Nothing is assumed
\* about the two threads, which may stay in a sleep for as long as they like.
SpecStartStopFair ==
    SpecStartStop /\ WF_vars(StopJoinScrape) /\ WF_vars(StopJoinMonitor)

(***************************************************************************)
(* The store of posted deals (src/database.py).  A deal is                 *)
(*   [merchant, discount_percent, source, face_value, price],              *)
(* its discount counted in hundredths of a percent.  A row of the table    *)
(* posted_deals is [deal_hash, deal |-> the columns copied from the deal,  *)
(* posted_at |-> hours].  In this part of the model the clock now counts   *)
(* days.                                                                   *)
(***************************************************************************)
MaxRows == 3            \* rows inserted into posted_deals in one run

HoursPerDay == 24
DuplicateWindowHours == 24

UtcHours(time) == time * HoursPerDay

\* the deals the scrapers find: two listings of one card that differ in price
\* by a few cents, and another card
FoundDeals ==
    {[merchant |-> "Target", discount_percent |-> 1004, source |-> "raise",
      face_value |-> 100, price |-> 8996],
     [merchant |-> "Target", discount_percent |-> 1001, source |-> "raise",
      face_value |-> 100, price |-> 8999],
     [merchant |-> "Amazon", discount_percent |-> 2000, source |-> "cardcash",
      face_value |-> 50, price |-> 4000]}

\* the lists handed to filter_new_deals: up to two different deals
DealLists ==
    {<<>>} \cup {<<d>> : d \in FoundDeals}
           \cup {<<p[1], p[2]>> : p \in {q \in FoundDeals \X FoundDeals : q[1] # q[2]}}

\* f"{discount_percent:.1f}": tenths of a percent, rounded
FormatTenths(hundredths) == (hundredths + 5) \div 10

\* generate_deal_hash: the md5 digest of the key, which stands for its key
GenerateDealHash(deal) ==
    <<deal.merchant, FormatTenths(deal.discount_percent), deal.source,
      deal.face_value>>

\* get_posted_deal_hashes; read is what the query does: "ok" or "raised"
GetPostedDealHashes(rows, time, hours_back, read) ==
    IF read = "raised" THEN {}
    ELSE {row.deal_hash :
            row \in {r \in rows : r.posted_at >= UtcHours(time) - hours_back}}

\* filter_new_deals
FilterNewDeals(rows, time, deals, read) ==
    LET posted_hashes == GetPostedDealHashes(rows, time, DuplicateWindowHours, read)
        IsNew(deal) == GenerateDealHash(deal) \notin posted_hashes
    IN SelectSeq(deals, IsNew)

databaseFrame == <<current_frequency, min_frequency, max_frequency,
                   adjustment_threshold, scrape_count, scrape_history,
                   last_adjustment_time, adjustment_history, adjustment_log_file,
                   skipped_return, running, caller, threads>>

\* mark_deal_as_posted; insert is what the insert does: "inserted" or "raised"
MarkDealAsPosted(deal, insert) ==
    /\ Cardinality(posted_deals) < MaxRows
    /\ posted_deals' =
          IF insert = "inserted"
          THEN posted_deals \cup {[deal_hash |-> GenerateDealHash(deal),
                                   deal |-> deal, posted_at |-> UtcHours(now)]}
          ELSE posted_deals
    /\ call' = [op |-> "mark", deal |-> deal, returned |-> insert = "inserted"]
    /\ UNCHANGED now
    /\ UNCHANGED databaseFrame

CallFilterNewDeals(deals, read) ==
    /\ call' = [op |-> "filter", deals |-> deals, read |-> read,
                result |-> FilterNewDeals(posted_deals, now, deals, read)]
    /\ UNCHANGED <<posted_deals, now>>
    /\ UNCHANGED databaseFrame

\* a day passes
DayPasses ==
    /\ now < MaxTime
    /\ now' = now + 1
    /\ call' = NoCall
    /\ UNCHANGED posted_deals
    /\ UNCHANGED databaseFrame

NextDatabase ==
    \/ \E deal \in FoundDeals, insert \in {"inserted", "raised"} :
          MarkDealAsPosted(deal, insert)
    \/ \E deals \in DealLists, read \in {"ok", "raised"} :
          CallFilterNewDeals(deals, read)
    \/ DayPasses

SpecDatabase == InitRules /\ [][NextDatabase]_vars

(***************************************************************************)
(* Properties.                                                             *)
(***************************************************************************)
\* the last operation was an adjust_frequency call that evaluated the rules
RulesEvaluated == call.op = "adjust" /\ call.path \in RuleEvaluations

WithinBounds ==
    min_frequency <= current_frequency /\ current_frequency <= max_frequency

\* C1: after every call of adjust_frequency that evaluates the rules, the
\* interval lies between the configured minimum and maximum, whatever bounds
\* were configured through set_frequency_bounds.
C1_ClampedAfterEveryEvaluation == RulesEvaluated => WithinBounds

\* C2: in every reachable state the interval lies between the minimum and the
\* maximum.
C2_IntervalAlwaysWithinBounds == WithinBounds

\* C3: a call of adjust_frequency made while the scrape count is below the
\* threshold leaves the interval, the time of the last adjustment, the log and
\* its file as they were, and runs no monitoring session.
C3_BelowThresholdChangesNothing ==
    [][(call'.op = "adjust" /\ scrape_count' < adjustment_threshold')
         => /\ current_frequency' = current_frequency
            /\ last_adjustment_time' = last_adjustment_time
            /\ adjustment_history' = adjustment_history
            /\ adjustment_log_file' = adjustment_log_file
            /\ ~call'.monitor_started]_vars

\* a call below the threshold, made without metrics (so that an eligible call
\* would have run a monitoring session) on a scraper whose count is not zero
C3_Witness ==
    /\ call.op = "adjust"
    /\ scrape_count < adjustment_threshold
    /\ scrape_count > 0
    /\ ~call.has_data

\* C4: the value a skipped call returns differs from the value returned by a
\* call that evaluated the rules, whether or not it changed the interval.
C4_SkippedResultDiffers ==
    (/\ call.op = "adjust"
     /\ call.path \in {"unchanged", "changed"}
     /\ skipped_return # <<>>)
        => skipped_return[1] # call.returned

\* the rule table as an ordered list of predicates with their reason and
\* confidence; t is the average turnover and l the average lifetime
RuleHolds(i, t, l) ==
    CASE i = 1 -> RatLess(Rat(50), t)
      [] i = 2 -> RatLess(Rat(30), t)
      [] i = 3 -> RatLess(t, Rat(5)) /\ RatLess(Rat(180), l)
      [] i = 4 -> RatLess(t, Rat(10))
      [] i = 5 -> RatLess(l, Rat(30))
      [] i = 6 -> TRUE

FirstRule(t, l) ==
    CHOOSE i \in 1..6 : RuleHolds(i, t, l) /\ \A j \in 1..(i - 1) : ~RuleHolds(j, t, l)

RuleReason(i) ==
    CASE i = 1 -> "very high turnover rate"
      [] i = 2 -> "high turnover rate"
      [] i = 3 -> "very low turnover and long deal lifetime"
      [] i = 4 -> "low turnover rate"
      [] i = 5 -> "very short deal lifetime"
      [] i = 6 -> "metrics within normal range"

RuleConfidence(i) ==
    CASE i \in {1, 2, 3, 5} -> "high" [] i = 4 -> "medium" [] i = 6 -> "low"

\* the direction in which rule i moves the interval
RuleDirection(i, old, new) ==
    CASE i \in {1, 2, 5} -> new <= Max(old, min_frequency)
      [] i \in {3, 4} -> new >= Min(old, max_frequency)
      [] i = 6 -> new = ClampToBounds(old, min_frequency, max_frequency)

LastAdjustment == adjustment_history.adjustments[Len(adjustment_history.adjustments)]

\* C5: an eligible call applies the first rule, in the order of the table,
\* whose predicate holds for the averages over the two sources, and records
\* that rule's reason and confidence; with average turnover 60%, interval 60,
\* minimum 10 and maximum 240 the interval becomes 15.
C5_FirstMatchingRuleApplies ==
    RulesEvaluated =>
        LET t == AvgTurnover(call.turnover_data)
            l == AvgLifetime(call.turnover_data)
            i == FirstRule(t, l)
        IN /\ call.reason = RuleReason(i)
           /\ call.confidence = RuleConfidence(i)
           /\ RuleDirection(i, call.old_frequency, current_frequency)
           /\ call.path = "changed" =>
                 /\ LastAdjustment.reason = RuleReason(i)
                 /\ LastAdjustment.confidence = RuleConfidence(i)
           /\ (/\ RatEq(t, Rat(60))
               /\ call.old_frequency = 60
               /\ min_frequency = 10
               /\ max_frequency = 240) => current_frequency = 15

\* the example of C5, logged with the reason and confidence of the first rule
C5_Witness ==
    /\ RulesEvaluated
    /\ call.path = "changed"
    /\ RatEq(AvgTurnover(call.turnover_data), Rat(60))
    /\ call.old_frequency = 60
    /\ min_frequency = 10
    /\ max_frequency = 240
    /\ current_frequency = 15
    /\ LastAdjustment.reason = "very high turnover rate"
    /\ LastAdjustment.confidence = "high"

\* the statistics come from analyze_session, each source saw a deal, and more
\* than half of the deals seen in each source had disappeared
MajorityDisappeared(turnover_data) ==
    \A source \in {"gcx_stats", "cardcash_stats"} :
        /\ source \in DOMAIN turnover_data
        /\ "total_deals_seen" \in DOMAIN turnover_data[source]
        /\ turnover_data[source].total_deals_seen > 0
        /\ 2 * turnover_data[source].disappeared_deals
               > turnover_data[source].total_deals_seen

\* C6: an eligible call fed the statistics analyze_session produced for a
\* session in which more than half of the deals of every source disappeared
\* takes the very-high-turnover rule and lowers the interval to at most 15
\* minutes, or to the minimum when that is higher.
C6_MajorityDisappearedIsVeryHigh ==
    (RulesEvaluated /\ MajorityDisappeared(call.turnover_data))
        => /\ call.reason = "very high turnover rate"
           /\ current_frequency <= Max(15, min_frequency)

\* the case of C7: average turnover 3%, average lifetime 200 minutes,
\* interval 60 before the call, maximum 240
VeryLowExample ==
    /\ RulesEvaluated
    /\ RatEq(AvgTurnover(call.turnover_data), Rat(3))
    /\ RatEq(AvgLifetime(call.turnover_data), Rat(200))
    /\ call.old_frequency = 60
    /\ max_frequency = 240

\* C7 as stated: in that case the call sets the interval to 80.
C7_VeryLowExampleGives80 == VeryLowExample => current_frequency = 80

\* C7: with average turnover 3%, average lifetime 200 minutes, interval 60
\* before the call and maximum 240, the call sets the interval to
\* min(240, max(120, 60 + 20)) = 120, or to the minimum when that is higher.
C7_VeryLowExampleGives120 ==
    VeryLowExample => current_frequency = Max(120, min_frequency)

C7_Witness ==
    /\ VeryLowExample
    /\ min_frequency = 10
    /\ call.path = "changed"
    /\ current_frequency = 120
    /\ LastAdjustment.old_frequency = 60
    /\ LastAdjustment.new_frequency = 120

\* C8: an eligible call that leaves the interval as it was appends no record,
\* changes no counter and leaves the log file alone, but sets the time of the
\* last adjustment to the time of the call.
C8_NoChangeAppendsNothing ==
    [][(/\ call'.op = "adjust"
        /\ call'.path \in RuleEvaluations
        /\ current_frequency' = current_frequency)
         => /\ adjustment_history' = adjustment_history
            /\ adjustment_log_file' = adjustment_log_file
            /\ last_adjustment_time' = <<now>>]_vars

\* a call that changed nothing, made after a call that changed the interval
\* and was logged
C8_Witness ==
    /\ RulesEvaluated
    /\ call.path = "unchanged"
    /\ current_frequency = call.old_frequency
    /\ CanLog(adjustment_history)
    /\ Len(adjustment_history.adjustments) = 1
    /\ adjustment_history.stats.total_adjustments = 1
    /\ LastAdjustment.new_frequency = current_frequency
    /\ last_adjustment_time = <<now - 1>>
    /\ LastAdjustment.timestamp < now - 1

\* C9: an eligible call that changes the interval appends exactly one record
\* with the old and the new interval, adds one to the total, and adds one to
\* the count of increases when the interval grew and to the count of
\* decreases when it shrank.
C9_ChangeAppendsOneRecord ==
    [][(/\ call'.op = "adjust"
        /\ call'.path \in RuleEvaluations
        /\ current_frequency' # current_frequency)
         => /\ CanLog(adjustment_history')
            /\ Len(adjustment_history'.adjustments)
                  = Len(adjustment_history.adjustments) + 1
            /\ SubSeq(adjustment_history'.adjustments, 1,
                      Len(adjustment_history.adjustments))
                  = adjustment_history.adjustments
            /\ LastAdjustment'.old_frequency = current_frequency
            /\ LastAdjustment'.new_frequency = current_frequency'
            /\ adjustment_history'.stats.total_adjustments
                  = adjustment_history.stats.total_adjustments + 1
            /\ adjustment_history'.stats.increases
                  = adjustment_history.stats.increases
                      + (IF current_frequency' > current_frequency THEN 1 ELSE 0)
            /\ adjustment_history'.stats.decreases
                  = adjustment_history.stats.decreases
                      + (IF current_frequency' < current_frequency THEN 1 ELSE 0)]_vars

\* C10: whatever integers set_frequency_bounds was called with, the minimum
\* and the maximum both lie between 5 and 360 minutes.
C10_BoundsWithinAbsoluteRange ==
    /\ min_frequency \in AbsoluteMinimum..AbsoluteMaximum
    /\ max_frequency \in AbsoluteMinimum..AbsoluteMaximum

(***************************************************************************)
(* Starting, stopping and the two threads.                                 *)
(***************************************************************************)
\* C11: a start while the scraper is running creates no thread, leaves the
\* flag and every field of the controller as they were, and is reported with
\* a warning and without an exception.
C11_StartWhileRunningIsNoOp ==
    [][(running /\ call'.op = "start")
        => /\ threads' = threads
           /\ running' = running
           /\ UNCHANGED controllerVars
           /\ call'.signal = "warning"
           /\ ~call'.raised]_vars

\* start was called while both threads were at work after a first scrape
C11_Witness ==
    /\ call.op = "start" /\ call.signal = "warning"
    /\ running /\ Len(threads) = 2
    /\ scrape_count >= 1
    /\ ScrapeThreadAlive /\ MonitorThreadAlive

\* C12: a stop that has begun returns, and when it has returned the scraper
\* is stopped, whatever the two threads do in the meantime.
C12_StopAlwaysReturns ==
    (caller # "idle")
        ~> (caller = "idle" /\ ~running /\ call.op = "stop" /\ call.returned)

\* stop has returned while the scraping thread is still in the sleep between
\* two scrapes and the monitoring thread in its first sleep
C12_Witness ==
    /\ call.op = "stop" /\ call.returned /\ ~running /\ caller = "idle"
    /\ \E i \in DOMAIN threads :
          threads[i].target = "scrape" /\ threads[i].pc = "sleep"
    /\ \E i \in DOMAIN threads :
          threads[i].target = "monitor" /\ threads[i].pc = "warmup"

\* thread i leaves process_deals or its monitoring session by an exception
FailureStep(i) ==
    /\ i \in DOMAIN threads'
    /\ \/ threads[i].pc = "process" /\ threads'[i].pc \notin {"process", "sleep", "adjust"}
       \/ threads[i].pc = "session" /\ threads'[i].pc \notin {"session", "adjust"}

\* C13: an exception in a scrape or in a monitoring session leaves the thread
\* alive in its backoff of 60 seconds, respectively 30 minutes, and changes
\* neither the other thread nor the controller; the backoff ends at the top
\* of the loop, and a thread at the top of its loop while the scraper is
\* running begins another cycle.
C13_FailureBacksOffAndRetries ==
    [][\A i \in DOMAIN threads :
          /\ FailureStep(i)
               => /\ threads'[i].pc = "backoff"
                  /\ threads'[i].wait
                        = (IF threads[i].target = "scrape" THEN 60 ELSE 1800)
                  /\ \A j \in DOMAIN threads \ {i} : threads'[j] = threads[j]
                  /\ DOMAIN threads' = DOMAIN threads
                  /\ running' = running
                  /\ UNCHANGED controllerVars
          /\ (threads[i].pc = "backoff" /\ threads'[i] # threads[i])
               => threads'[i].pc = "loop"
          /\ (threads[i].pc = "loop" /\ threads'[i] # threads[i] /\ running)
               => threads'[i].pc
                    \in (IF threads[i].target = "scrape" THEN {"process"}
                         ELSE {"session", "recheck"})]_vars

\* the scraping thread sleeps after a failed scrape that followed a counted
\* one, while the monitoring thread sleeps after a failed session
C13_Witness ==
    /\ running /\ Len(threads) = 2
    /\ threads[1].pc = "backoff" /\ threads[1].wait = ScrapeBackoffSeconds
    /\ threads[2].pc = "backoff" /\ threads[2].wait = MonitorBackoffSeconds
    /\ scrape_count >= 1

\* the threads inside l.135-173 of adjust_frequency
InUpdateSection == {i \in DOMAIN threads : threads[i].pc \in {"update", "save"}}

\* C14: at most one thread at a time is inside the lines of adjust_frequency
\* that read the interval, write it and write the adjustment log.
C14_AtMostOneInUpdateSection == Cardinality(InUpdateSection) <= 1

(***************************************************************************)
(* The analyzer's results, stated over the rows of the analyzed session.   *)
(***************************************************************************)
\* the last operation was an analysis of a session that has snapshots
Analyzed == call.op = "analyze" /\ call.result # None

StatsKeys == {"gcx_stats", "cardcash_stats"}
SourceOf(key) == IF key = "gcx_stats" THEN "raise" ELSE "cardcash"

SetMax(S) == CHOOSE x \in S : \A y \in S : y <= x
SetMin(S) == CHOOSE x \in S : \A y \in S : x <= y

\* the hashes of the deals of a source seen in the session
ItemsSeen(session, source) ==
    {d.hash : d \in {e \in UNION {session.snapshots[i].deals :
                                     i \in DOMAIN session.snapshots} :
                        e.source = source}}

\* the sequence numbers at which a deal was observed
ObservedAt(session, h) ==
    {session.snapshots[i].check_number :
        i \in {j \in DOMAIN session.snapshots :
                 \E d \in session.snapshots[j].deals : d.hash = h}}

\* the sequence number of the session's last snapshot
FinalSequenceNumber(session) ==
    SetMax({session.snapshots[i].check_number : i \in DOMAIN session.snapshots})

\* the items of a source that have a lifetime sample, and the sample's minutes
Sampled(session, source) ==
    {h \in ItemsSeen(session, source) : Cardinality(ObservedAt(session, h)) >= 2}

SampleMinutes(session, h) ==
    (SetMax(ObservedAt(session, h)) - SetMin(ObservedAt(session, h)) + 1)
        * session.check_interval_minutes

\* avg is the mean of the samples of the source, 0 when there is none
IsMeanLifetime(avg, session, source) ==
    LET sampled == Sampled(session, source)
        minutes == [h \in sampled |-> SampleMinutes(session, h)]
    IN IF sampled = {} THEN RatEq(avg, Rat(0))
       ELSE RatEq(avg, <<SumOver(sampled, minutes), Cardinality(sampled)>>)

\* C15: for every session and source the reported turnover rate lies in
\* [0, 1], and it is reported as 0 when no item of the source was seen.
C15_TurnoverRateReported ==
    Analyzed =>
        \A key \in StatsKeys :
            LET stats == call.result[key] IN
            /\ "turnover_rate" \in DOMAIN stats
            /\ ~RatLess(stats.turnover_rate, Rat(0))
            /\ ~RatLess(Rat(1), stats.turnover_rate)
            /\ ItemsSeen(call.session, SourceOf(key)) = {}
                  => RatEq(stats.turnover_rate, Rat(0))

\* C16: for a source in which items were seen, the disappeared count is the
\* number of its items whose last observed sequence number is below the
\* session's final sequence number.
C16_DisappearedCountsItemsGoneByFinal ==
    Analyzed =>
        \A key \in StatsKeys :
            ItemsSeen(call.session, SourceOf(key)) # {} =>
                call.result[key].disappeared_deals =
                    Cardinality({h \in ItemsSeen(call.session, SourceOf(key)) :
                        SetMax(ObservedAt(call.session, h))
                            < FinalSequenceNumber(call.session)})

\* every item seen in the session is present in every snapshot
AllItemsAlwaysPresent(session) ==
    \A i, j \in DOMAIN session.snapshots :
        session.snapshots[i].deals = session.snapshots[j].deals

\* C17: when every item seen is present in every snapshot of the session, the
\* disappeared count and the turnover rate are 0 for every source.
C17_NothingDisappearsWhenAllPresent ==
    (Analyzed /\ AllItemsAlwaysPresent(call.session)) =>
        \A key \in StatsKeys :
            LET stats == call.result[key] IN
            /\ "disappeared_deals" \in DOMAIN stats
            /\ stats.disappeared_deals = 0
            /\ "turnover_rate" \in DOMAIN stats
            /\ RatEq(stats.turnover_rate, Rat(0))

\* C18: for every source the average lifetime is the mean of
\* (last - first + 1) * interval over the items observed at least twice, and 0
\* when there is no such item; an item observed once is still counted in the
\* total of items seen.
C18_AverageLifetimeIsMeanOfSamples ==
    Analyzed =>
        \A key \in StatsKeys :
            LET stats == call.result[key] IN
            /\ stats.total_deals_seen
                  = Cardinality(ItemsSeen(call.session, SourceOf(key)))
            /\ "avg_lifetime_minutes" \in DOMAIN stats
            /\ IsMeanLifetime(stats.avg_lifetime_minutes, call.session, SourceOf(key))

\* the items of a source observed in one snapshot only
SeenOnce(session, source) ==
    {h \in ItemsSeen(session, source) : Cardinality(ObservedAt(session, h)) = 1}

\* C19: an item observed in one snapshot only contributes no lifetime sample:
\* the average lifetime of its source is the mean over the other items that
\* were observed at least twice (0 when there is none).
C19_SingleObservationAddsNoSample ==
    Analyzed =>
        \A key \in StatsKeys :
            SeenOnce(call.session, SourceOf(key)) # {} =>
                IsMeanLifetime(call.result[key].avg_lifetime_minutes,
                               call.session, SourceOf(key))

\* an item seen once next to an item seen in the first and the last of three
\* snapshots of a 10-minute session: the average is that item's 30 minutes
C19_Witness ==
    /\ Analyzed
    /\ call.session.check_interval_minutes = 10
    /\ Len(call.session.snapshots) = 3
    /\ SeenOnce(call.session, "raise") = {"g1"}
    /\ ObservedAt(call.session, "g2") = {1, 3}
    /\ RatEq(call.result.gcx_stats.avg_lifetime_minutes, Rat(30))
    /\ call.result.gcx_stats.total_deals_seen = 2

\* the minimum over the sources of the reported average lifetimes
MinimumLifetime(result) ==
    LET reported == {result[key].avg_lifetime_minutes :
                        key \in {k \in StatsKeys :
                                   "avg_lifetime_minutes" \in DOMAIN result[k]}}
    IN IF reported = {} THEN Infinity
       ELSE CHOOSE a \in reported : \A b \in reported : ~RatLess(b, a)

\* C20 as stated: the recommendation is 30 minutes when the minimum lifetime
\* is at most 60, 60 minutes when it is above 60 and at most 120, and 120
\* minutes otherwise.
C20_BucketsInclusive ==
    Analyzed =>
        LET m == MinimumLifetime(call.result) IN
        call.result.recommendations.minutes =
            IF ~RatLess(Rat(60), m) THEN 30
            ELSE IF ~RatLess(Rat(120), m) THEN 60 ELSE 120

\* C20: the recommendation is 30 minutes when the minimum lifetime is below
\* 60, 60 minutes when it is at least 60 and below 120, and 120 minutes
\* otherwise.
C20_BucketsExclusive ==
    Analyzed =>
        LET m == MinimumLifetime(call.result) IN
        call.result.recommendations.minutes =
            IF RatLess(m, Rat(60)) THEN 30
            ELSE IF RatLess(m, Rat(120)) THEN 60 ELSE 120

\* a minimum lifetime of exactly 60 minutes, below the other source's
C20_Witness ==
    /\ Analyzed
    /\ RatEq(MinimumLifetime(call.result), Rat(60))
    /\ "avg_lifetime_minutes" \in DOMAIN call.result.gcx_stats
    /\ RatLess(Rat(60), call.result.gcx_stats.avg_lifetime_minutes)
    /\ call.result.recommendations.minutes = 60
    /\ call.result.recommendations.recommendation = <<"Every", "1", "hour">>

\* a source produced a lifetime when its statistics report an average
ProducedLifetime(result) ==
    {key \in StatsKeys : "avg_lifetime_minutes" \in DOMAIN result[key]}

\* C21: the recommendation's confidence is low exactly when no source
\* produced a lifetime, and then no interval is recommended; in every other
\* case the confidence is high.
C21_LowConfidenceRecommendsNothing ==
    Analyzed =>
        LET rec == call.result.recommendations IN
        /\ rec.confidence = "low" <=> ProducedLifetime(call.result) = {}
        /\ rec.confidence \in {"low", "high"}
        /\ rec.confidence = "low"
              => /\ rec.minutes \notin {30, 60, 120}
                 /\ Len(rec.recommendation) = 0

\* C22: the history in memory has the sequence of adjustments and the three
\* counters, whatever the file held when the controller was constructed.
C22_HistoryHasRecordsAndCounters ==
    /\ "adjustments" \in DOMAIN adjustment_history
    /\ "stats" \in DOMAIN adjustment_history
    /\ {"total_adjustments", "increases", "decreases"}
          \subseteq DOMAIN adjustment_history.stats

\* C23: a controller constructed over the file after the scraper ended loads
\* the history the ended scraper had: the same records in the same order and
\* the same counters.
C23_RestartLoadsWholeHistory ==
    (call.op = "restart") => adjustment_history = call.before

\* C24: get_status changes no field, no thread and no file, and its result
\* holds the flag, the interval, the count of scrapes and the time of the
\* last adjustment as they are, with the last five entries of the scrape
\* history (all of them when there are fewer) in their order.
C24_StatusIsReadOnlySnapshot ==
    [][(call'.op = "status")
        => /\ UNCHANGED controllerVars
           /\ UNCHANGED <<running, threads>>
           /\ call'.result.running = running
           /\ call'.result.current_frequency_minutes = current_frequency
           /\ call'.result.scrape_count = scrape_count
           /\ IF last_adjustment_time = NoTime
              THEN call'.result.last_adjustment = None
              ELSE call'.result.last_adjustment
                      = [isoformat |-> last_adjustment_time[1]]
           /\ LET latest == call'.result.latest_scrapes
                  n == Len(scrape_history)
              IN /\ Len(latest) = Min(5, n)
                 /\ \A k \in 1..Len(latest) :
                        latest[k] = scrape_history[n - Len(latest) + k]]_vars

\* the status was asked for while the scraper was running, after more than
\* five scrapes and an adjustment
C24_Witness ==
    /\ call.op = "status"
    /\ running
    /\ Len(scrape_history) > 5
    /\ Len(call.result.latest_scrapes) = 5
    /\ call.result.latest_scrapes[1] = scrape_history[Len(scrape_history) - 4]
    /\ last_adjustment_time # NoTime

\* the scraping threads
ScrapeThreads == {i \in DOMAIN threads : threads[i].target = "scrape"}

\* C27: the scraping thread calls adjust_frequency after its n-th counted
\* scrape exactly when n is at least the threshold and a multiple of 4; it
\* calls it at no other point, and a scrape that fails is not counted.
C27_AdjustAfterEveryFourthScrape ==
    [][\A i \in ScrapeThreads :
          LET n == scrape_count'
              called == threads[i].pc # "adjust" /\ threads'[i].pc = "adjust"
          IN /\ (threads[i].pc = "process" /\ n = scrape_count + 1)
                  => (called <=> (n >= adjustment_threshold /\ n % 4 = 0))
             /\ called => (threads[i].pc = "process" /\ n = scrape_count + 1)
             /\ (threads[i].pc = "process" /\ threads'[i].pc = "backoff")
                  => n = scrape_count]_vars

\* with the default threshold of 5 the first call follows the 8th scrape
C27_Witness ==
    /\ adjustment_threshold = DefaultAdjustmentThreshold
    /\ scrape_count = 8
    /\ \E i \in ScrapeThreads : threads[i].pc = "adjust"

\* C30: the scrape history never holds more than a fixed number of entries,
\* the five that get_status reports.
C30_ScrapeHistoryBounded == Len(scrape_history) <= RecentWindow

\* C25: filter_new_deals omits every deal of its list that was marked as
\* posted within the last 24 hours, whatever its query of the store does, and
\* keeps every deal that was never marked.
C25_MarkedDealsAreOmitted ==
    (call.op = "filter") =>
        \A k \in DOMAIN call.deals :
            LET deal == call.deals[k]
                kept == \E j \in DOMAIN call.result : call.result[j] = deal
                marked == {row \in posted_deals : row.deal = deal}
            IN /\ (\E row \in marked :
                      UtcHours(now) - row.posted_at <= 24) => ~kept
               /\ marked = {} => kept

\* the rules, of the five that change the interval, whose predicate holds
RulesHolding(t, l) == {i \in 1..5 : RuleHolds(i, t, l)}

\* C26 as stated: for the averages of every evaluation at most one of the
\* five rule predicates holds.
C26_AtMostOneRuleHolds ==
    RulesEvaluated =>
        Cardinality(RulesHolding(AvgTurnover(call.turnover_data),
                                 AvgLifetime(call.turnover_data))) <= 1

\* C26, amended: the predicates overlap, and when more than one holds the
\* evaluation applies the one that comes first in the table, with its reason
\* and confidence.
C26_EarliestOfOverlappingRulesApplies ==
    RulesEvaluated =>
        LET holding == RulesHolding(AvgTurnover(call.turnover_data),
                                    AvgLifetime(call.turnover_data))
        IN Cardinality(holding) >= 2
              => /\ call.reason = RuleReason(SetMin(holding))
                 /\ call.confidence = RuleConfidence(SetMin(holding))

\* an evaluation for which the rule for a very high turnover and the rule for
\* a high turnover both hold, and which changed the interval to 15
C26_Witness ==
    /\ RulesEvaluated
    /\ {1, 2} \subseteq RulesHolding(AvgTurnover(call.turnover_data),
                                      AvgLifetime(call.turnover_data))
    /\ call.reason = "very high turnover rate"
    /\ call.old_frequency = 60 /\ current_frequency = 15

\* C28: every sleep of the scraping thread's wait lasts between 0 and 30
\* seconds and is followed by a test of the flag; the wait is planned as
\* max(0, interval * 60 - elapsed), and when the loop runs to its end without
\* seeing the flag False the sleeps add up to exactly the planned wait.
C28_SleepsInChunksOfAtMost30 ==
    [][\A i \in ScrapeThreads :
          /\ (threads[i].pc = "sleep" /\ threads'[i].pc = "check")
                => \E elapsed \in ElapsedInputs :
                      threads'[i].waiting.planned
                         = (IF current_frequency * 60 - elapsed > 0
                            THEN current_frequency * 60 - elapsed ELSE 0)
          /\ (threads'[i].pc = "asleep")
                => /\ threads'[i].waiting.asleep >= 0
                   /\ threads'[i].waiting.asleep <= 30
          /\ (threads[i].pc = "asleep" /\ threads'[i] # threads[i])
                => threads'[i].pc = "check"
          /\ (threads[i].pc = "check" /\ threads'[i].pc = "loop" /\ running)
                => threads[i].waiting.slept = threads[i].waiting.planned]_vars

\* the scraping thread has slept 30, 30 and 10 seconds of a wait of 70
C28_Witness ==
    \E i \in ScrapeThreads :
        /\ threads[i].pc = "check"
        /\ threads[i].waiting.planned = 70
        /\ threads[i].waiting.slept = 70
        /\ threads[i].waiting.left = 0
        /\ running

\* the sleeps in which a thread waits between two cycles
WaitingBetweenCycles(i) ==
    \/ threads[i].target = "scrape" /\ threads[i].pc = "asleep"
    \/ threads[i].target = "monitor" /\ threads[i].pc \in {"warmup", "asleep"}

\* C29: once the flag is False, a thread that waits between two cycles is in
\* a sleep of at most 30 seconds, after which it sees the flag.
C29_StopSeenWithin30Seconds ==
    ~running =>
        \A i \in DOMAIN threads :
            WaitingBetweenCycles(i) => threads[i].waiting.asleep <= 30

\* C31: the record of a scrape is written before the adjustment that the
\* scrape triggers and carries the interval of that moment, which the
\* adjustment leaves in the record; the wait after the scrape is planned
\* after the adjustment, from the interval the adjustment has set.
C31_RecordBeforeAdjustAndWaitAfter ==
    [][\A i \in ScrapeThreads :
          /\ (threads[i].pc = "process" /\ scrape_count' = scrape_count + 1)
                => /\ scrape_history'
                        = Append(scrape_history,
                                 [timestamp |-> now,
                                  frequency_minutes |-> current_frequency])
                   /\ current_frequency' = current_frequency
          /\ (threads[i].pc \in {"adjust", "update", "save"}
                /\ threads'[i] # threads[i])
                => /\ scrape_history' = scrape_history
                   /\ threads'[i].pc \in {"update", "save", "sleep"}
          /\ (threads[i].pc = "sleep" /\ threads'[i].pc = "check")
                => /\ \E elapsed \in ElapsedInputs :
                        threads'[i].waiting.planned
                           = Max(0, current_frequency * 60 - elapsed)
                   /\ current_frequency' = current_frequency]_vars

\* after its 4th scrape, recorded at 60 minutes, the scraping thread changed
\* the interval to 70 and planned a wait of 70 minutes, while the monitoring
\* thread was still in its first sleep
C31_Witness ==
    /\ scrape_count = 4 /\ Len(threads) = 2
    /\ threads[1].pc = "check" /\ threads[1].waiting.planned = 70 * 60
    /\ threads[2].pc = "warmup"
    /\ scrape_history[4].frequency_minutes = 60
    /\ current_frequency = 70
    /\ Len(adjustment_history.adjustments) = 1
    /\ LastAdjustment.old_frequency = 60 /\ LastAdjustment.new_frequency = 70

\* the statistics report that no item of any source was seen
NoItemsSeen(turnover_data) ==
    \A key \in StatsKeys :
        /\ key \in DOMAIN turnover_data
        /\ "total_deals_seen" \in DOMAIN turnover_data[key]
        /\ turnover_data[key].total_deals_seen = 0

\* C32: an eligible call whose statistics hold no item for any source leaves
\* the interval as it was and appends no record.
C32_NoItemsChangesNothing ==
    [][(/\ call'.op = "adjust"
        /\ call'.path \in RuleEvaluations
        /\ NoItemsSeen(call'.turnover_data))
         => /\ current_frequency' = current_frequency
            /\ adjustment_history' = adjustment_history]_vars

\* C33: a controller constructed over a file whose history has a last record
\* starts with the interval that record set.
C33_RestartRestoresInterval ==
    (/\ call.op = "restart"
     /\ CanLog(adjustment_history)
     /\ Len(adjustment_history.adjustments) > 0)
        => current_frequency = LastAdjustment.new_frequency

\* the rules that shorten the interval and the rules that lengthen it
DecreaseReasons == {RuleReason(1), RuleReason(2), RuleReason(5)}
IncreaseReasons == {RuleReason(3), RuleReason(4)}

\* C34: after an evaluation that applied a rule for high turnover or short
\* lifetime the interval is not larger than before the call, after one that
\* applied a rule for low turnover it is not smaller, and after one that
\* applied no rule it is the same.
C34_RulesMoveInTheirDirection ==
    RulesEvaluated =>
        /\ call.reason \in DecreaseReasons => current_frequency <= call.old_frequency
        /\ call.reason \in IncreaseReasons => current_frequency >= call.old_frequency
        /\ call.reason = RuleReason(6) => current_frequency = call.old_frequency

\* C35: the number analyze_session takes for the session's last check is the
\* highest check number recorded for the session, whether or not the
\* recorded check numbers have a gap.
C35_FinalNumberIsHighestRecorded ==
    Analyzed =>
        NumSnapshots(call.session.snapshots) = FinalSequenceNumber(call.session)

\* the threads of a kind that have not ended
Alive(target) ==
    {i \in DOMAIN threads : threads[i].target = target /\ threads[i].pc # "dead"}

\* C36: whatever starts and stops were called, at most one scraping thread and
\* at most one monitoring thread is alive.
C36_OneThreadOfEachKind ==
    /\ Cardinality(Alive("scrape")) <= 1
    /\ Cardinality(Alive("monitor")) <= 1

\* stop_adaptive_scraping has returned and the scraper was not started again
StopReturned == ~running /\ caller = "idle" /\ threads # <<>>

\* C37: between the return of a stop and the next start no thread begins a
\* scrape or a monitoring session, none calls adjust_frequency, and the
\* interval, the count of scrapes and the adjustment history stay as they
\* are.  (The construction of a new controller is no step of the stopped one.)
C37_NothingHappensAfterStop ==
    [][(StopReturned /\ StopReturned' /\ call'.op # "restart")
        => /\ current_frequency' = current_frequency
           /\ scrape_count' = scrape_count
           /\ adjustment_history' = adjustment_history
           /\ \A i \in DOMAIN threads :
                 threads'[i].pc \in {"process", "session", "adjust"}
                    => threads'[i].pc = threads[i].pc]_vars

\* C38: every record appended to the history changes the interval, and it
\* starts from the interval the record before it set (the first record from
\* the interval the scraper was constructed with), however the calls of the
\* two threads interleave.
C38_RecordsFormAChain ==
    CanLog(adjustment_history) =>
        \A k \in DOMAIN adjustment_history.adjustments :
            LET record == adjustment_history.adjustments[k] IN
            /\ record.old_frequency # record.new_frequency
            /\ record.old_frequency =
                  IF k = 1 THEN 60
                  ELSE adjustment_history.adjustments[k - 1].new_frequency

\* the last call evaluated the rules and left the interval as it was
Settled == RulesEvaluated /\ call.path = "unchanged"

\* C39: when adjust_frequency is called again and again with the same
\* statistics and bounds with min <= max, a call comes that leaves the
\* interval unchanged, and from then on every call leaves the interval, the
\* history and its file unchanged.
C39_RepeatedCallsSettle ==
    /\ RulesEvaluated ~> Settled
    /\ [][(Settled /\ call'.op = "adjust")
            => /\ call'.path = "unchanged"
               /\ current_frequency' = current_frequency
               /\ adjustment_history' = adjustment_history
               /\ adjustment_log_file' = adjustment_log_file]_vars

\* from 5 minutes the low-turnover rule has raised the interval in 36 steps
\* to the maximum of 360, and two further calls have changed nothing
C39_Witness ==
    /\ Settled
    /\ min_frequency = 5 /\ max_frequency = 360
    /\ current_frequency = 360
    /\ Len(adjustment_history.adjustments) = 36
    /\ adjustment_history.adjustments[1].old_frequency = 5
    /\ LastAdjustment.new_frequency = 360
    /\ now >= 38

\* the scraping thread is inside a scrape
InProcess == \E i \in ScrapeThreads : threads[i].pc = "process"

\* the scraping thread is about to evaluate the rules when the evaluations of
\* the run are used up
AtEndOfRun == now >= MaxTime /\ \E i \in ScrapeThreads : threads[i].pc = "adjust"

====
